---- MODULE Spec2Model ----
(***************************************************************************)
(* json2gp3d: the JSON -> Gameplay3D property converter of src/main.cpp.   *)
(*                                                                         *)
(* The model follows main() from opening the input file to the final error *)
(* report, and ConvertAndExport as the recursive walk it is, with the call *)
(* stack made explicit: one action per straight-line piece of the function *)
(* between two recursive calls.                                            *)
(***************************************************************************)
EXTENDS Integers, Sequences, FiniteSets, TLC

VARIABLES
    input,          \* the JSON document in the input file, members in source order
    mainPc,         \* main()'s position
    inputStream,    \* main's std::ifstream inputStream: "unopened", "good" or "failed"
    outputStream,   \* main's std::ofstream outputStream: "unopened", "good" or "failed"
    errorMessage,   \* main's std::string errorMessage
    jsonDoc,        \* main's picojson::value jsonDoc
    namespaces,     \* the live PropertyNamespace objects: rootNamespace, then each newNamespace
    stack,          \* the activations of ConvertAndExport, innermost last
    stream,         \* the lines written to the output stream
    cout,           \* the lines written to standard output
    cerr            \* the lines written to standard error

vars == <<input, mainPc, inputStream, outputStream, errorMessage, jsonDoc, namespaces, stack, stream, cout, cerr>>

(***************************************************************************)
(* Bounds of the model.                                                    *)
(***************************************************************************)
\* The largest number of JSON values (containers and scalars) in a document.
MaxNodes == 4

(***************************************************************************)
(* JSON values.  A value is a record with its type tag and, by type, its   *)
(* number, string, boolean or items.  The items of an array are values;    *)
(* the items of an object are (first, second) pairs as in a std::pair.     *)
(***************************************************************************)
Num(n)  == [type |-> "number",  n |-> n, s |-> "",  b |-> FALSE, items |-> <<>>]
Str(s)  == [type |-> "string",  n |-> 0, s |-> s,   b |-> FALSE, items |-> <<>>]
Bool(b) == [type |-> "boolean", n |-> 0, s |-> "",  b |-> b,     items |-> <<>>]
Null    == [type |-> "null",    n |-> 0, s |-> "",  b |-> FALSE, items |-> <<>>]
Arr(el) == [type |-> "array",   n |-> 0, s |-> "",  b |-> FALSE, items |-> el]
Obj(ms) == [type |-> "object",  n |-> 0, s |-> "",  b |-> FALSE, items |-> ms]

\* A file that is not JSON.
Malformed == [type |-> "malformed", n |-> 0, s |-> "", b |-> FALSE, items |-> <<>>]

\* The object keys of the documents explored, the empty key included, and
\* their order under std::less<std::string>.
Keys == {"", "a"}
KeyRank(k) == CASE k = ""  -> 0
                [] k = "a" -> 1
KeyLess(x, y) == KeyRank(x) < KeyRank(y)

\* The scalars of the documents explored.
Scalars == {Num(5), Str("x"), Bool(TRUE), Null}

\* The sequences of n distinct keys, in any order.
KeySeqs(n) == {ks \in [1..n -> Keys] : \A i, j \in 1..n : i # j => ks[i] # ks[j]}

\* The values made of exactly n values, given F[i + 1], the sequences of
\* values with i values in all, for every i < n.
TreesOf(n, F) ==
    (IF n = 1 THEN Scalars ELSE {}) \cup
    {Arr(f) : f \in F[n]} \cup
    UNION {{Obj([i \in 1..Len(f) |-> [first |-> ks[i], second |-> f[i]]]) :
                ks \in KeySeqs(Len(f))} :
           f \in {g \in F[n] : Len(g) <= Cardinality(Keys)}}

\* Documents: the JSON values made of at most MaxNodes values.  T[i] holds
\* the values of exactly i values, F[i + 1] the sequences of i values in all.
RECURSIVE Grow(_, _, _)
Grow(n, T, F) ==
    LET T2 == Append(T, TreesOf(n, F)) IN
    IF n >= MaxNodes THEN UNION {T2[i] : i \in 1..Len(T2)}
    ELSE LET Fn == UNION {{<<t>> \o f : t \in T2[i], f \in F[n - i + 1]} : i \in 1..n}
         IN  Grow(n + 1, T2, Append(F, Fn))

Documents == Grow(1, <<>>, <<{<<>>}>>)

\* The files the input path may name: a JSON document, or text that is not JSON.
Inputs == Documents \cup {Malformed}

(***************************************************************************)
(* picojson: parsing and rendering.                                        *)
(***************************************************************************)
\* picojson::object is a std::map<std::string, value>: a member is stored
\* at its key's place in the key order, whatever its place in the text.
RECURSIVE InsertMember(_, _)
InsertMember(ms, m) ==
    IF ms = <<>> THEN <<m>>
    ELSE IF KeyLess(m.first, Head(ms).first) THEN <<m>> \o ms
    ELSE <<Head(ms)>> \o InsertMember(Tail(ms), m)

RECURSIVE InsertAll(_, _)
InsertAll(ms, rest) ==
    IF rest = <<>> THEN ms ELSE InsertAll(InsertMember(ms, Head(rest)), Tail(rest))

\* Mutant of MapOf: a container that keeps its members in insertion order.
MapOfInsertionOrder(ms) == ms

\* The members of a parsed object, as a range-for over the std::map yields them.
MapOf(ms) == InsertAll(<<>>, ms)

\* picojson::parse on a well-formed document: the value tree it builds.
RECURSIVE Parse(_)
Parse(v) ==
    CASE v.type = "array" ->
            Arr([i \in 1..Len(v.items) |-> Parse(v.items[i])])
      [] v.type = "object" ->
            Obj(MapOf([i \in 1..Len(v.items) |->
                        [first |-> v.items[i].first, second |-> Parse(v.items[i].second)]]))
      [] OTHER -> v

\* picojson::value::to_str on a scalar: strings without quotes, numbers in
\* decimal, booleans and null as their literals.
to_str(v) ==
    CASE v.type = "string"  -> v.s
      [] v.type = "number"  -> ToString(v.n)
      [] v.type = "boolean" -> (IF v.b THEN "true" ELSE "false")
      [] v.type = "null"    -> "null"

(***************************************************************************)
(* namespace converter                                                     *)
(***************************************************************************)
\* PropertyNamespace(name, depth) and its modifiers.
PropertyNamespace(name, depth) ==
    [name |-> name, depth |-> depth, previousModification |-> "None",
     values |-> <<>>, namespaces |-> <<>>]

AddNamespace(self, namespaceToAdd) ==
    [self EXCEPT !.namespaces = Append(@, namespaceToAdd),
                 !.previousModification = "NamespaceAdded"]

\* Mutant of AddValue: the pair is added, previousModification is left as it was.
AddValueUnrecorded(self, name, value) ==
    [self EXCEPT !.values = Append(@, <<name, value>>)]

AddValue(self, name, value) ==
    [self EXCEPT !.values = Append(@, <<name, value>>),
                 !.previousModification = "ValueAdded"]

GetNamespaceCount(self) == Len(self.namespaces)

GetPreviousModification(self) == self.previousModification

IsNamespaceType(node) == node.type = "object" \/ node.type = "array"

\* GetIndentation returns depth * indentationSpaces spaces; a line of the
\* output is kept as its indentation (a number of spaces) and its text.
indentationSpaces == 4
GetIndentation(depth) == depth * indentationSpaces

GetFormattedNamespaceName(namespaceToName, parent) ==
    IF namespaceToName.name = ""
    THEN parent.name \o "_" \o ToString(GetNamespaceCount(parent))
    ELSE namespaceToName.name

\* The lines of the output stream.  kind says which statement wrote the line.
BlankLine == [kind |-> "blank", indent |-> 0, name |-> "", value |-> ""]
NameLine(indent, name) == [kind |-> "name", indent |-> indent, name |-> name, value |-> ""]
OpenLine(indent) == [kind |-> "open", indent |-> indent, name |-> "", value |-> ""]
CloseLine(indent) == [kind |-> "close", indent |-> indent, name |-> "", value |-> ""]
ValueLine(indent, name, value) ==
    [kind |-> "value", indent |-> indent, name |-> name, value |-> value]

\* The text of a line after its indentation.
LineText(l) ==
    CASE l.kind = "blank" -> ""
      [] l.kind = "name"  -> l.name
      [] l.kind = "open"  -> "{"
      [] l.kind = "close" -> "}"
      [] l.kind = "value" -> l.name \o " = " \o l.value

\* What BeginNamespaceScope and EndNamespaceScope write.
BeginNamespaceScope(newNamespace, parent) ==
    (IF GetPreviousModification(parent) # "None" THEN <<BlankLine>> ELSE <<>>) \o
    <<NameLine(GetIndentation(newNamespace.depth),
               GetFormattedNamespaceName(newNamespace, parent)),
      OpenLine(GetIndentation(newNamespace.depth))>>

\* Mutant of EndNamespaceScope: the brace is indented as the block's content.
EndNamespaceScopeDeeper(newNamespace) ==
    <<CloseLine(GetIndentation(newNamespace.depth + 1))>>

EndNamespaceScope(newNamespace) == <<CloseLine(GetIndentation(newNamespace.depth))>>

\* value::get(key) on an array element, line 132.  The parameter is a
\* const std::string &: keyName is read, never written, and the member found
\* is discarded.  get asserts is<object>(): on an element that is an array
\* the assertion throws or aborts, and where assertions are compiled out the
\* lookup reads the array's storage as a map and, at best, returns.
GetOutcomes(arrayValue) ==
    IF arrayValue.type = "object" THEN {"returns"} ELSE {"fails", "returns"}

\* std::vector::back() on an empty vector, line 189: the program crashes, or
\* the reference denotes a pair whose key is whatever the memory holds.
IndeterminateKeys == {"", "?"}

(***************************************************************************)
(* The activations of ConvertAndExport.  An activation holds currentNode   *)
(* (node), the place of currentNamespace among the live namespaces (cur),  *)
(* its position (pc), the range-for's position (i) and valueIndex.  src is *)
(* the text of currentNode in the input file, its members in source order; *)
(* the program does not have it, the properties about key order read it.   *)
(***************************************************************************)
Call(node, src, cur) ==
    [node |-> node, src |-> src, cur |-> cur,
     pc |-> IF node.type = "array" THEN "array"
            ELSE IF node.type = "object" THEN "object" ELSE "scalar",
     i |-> 1, valueIndex |-> 0]

Top == stack[Len(stack)]
Converting == mainPc = "converting" /\ stack # <<>>
currentNamespace == namespaces[Top.cur]
\* The newNamespace of the innermost activation, live once it is constructed.
newNamespace == namespaces[Top.cur + 1]
\* The element or member the innermost activation's loop is at.
arrayValue == Top.node.items[Top.i]
valuePair == Top.node.items[Top.i]

\* The text of the member of key k of the object whose text is src.
SrcMember(src, k) ==
    LET j == CHOOSE j \in 1..Len(src.items) : src.items[j].first = k
    IN  src.items[j].second

SetTop(f) == [stack EXCEPT ![Len(stack)] = f]
Pop == SubSeq(stack, 1, Len(stack) - 1)

Init ==
    /\ input \in Inputs
    /\ mainPc = "open_input"
    /\ inputStream = "unopened"
    /\ outputStream = "unopened"
    /\ errorMessage = ""
    /\ jsonDoc = Null
    /\ namespaces = <<>>
    /\ stack = <<>>
    /\ stream = <<>>
    /\ cout = <<>>
    /\ cerr = <<>>

(***************************************************************************)
(* main                                                                    *)
(***************************************************************************)
\* Lines 215-219 and 242-245: open the input file.
OpenInput ==
    /\ mainPc = "open_input"
    /\ \E opened \in BOOLEAN :
         IF opened
         THEN /\ inputStream' = "good"
              /\ mainPc' = "parse"
              /\ UNCHANGED errorMessage
         ELSE /\ inputStream' = "failed"
              /\ errorMessage' = "Failed to open input file"
              /\ mainPc' = "report"
    /\ UNCHANGED <<input, outputStream, jsonDoc, namespaces, stack, stream, cout, cerr>>

\* Mutant of ParseJson: the error message is not looked at before going on.
ParseJsonUnchecked ==
    /\ mainPc = "parse"
    /\ cout' = Append(cout, "Parsing JSON...")
    /\ errorMessage' = IF input = Malformed THEN "syntax error" ELSE ""
    /\ jsonDoc' = IF input = Malformed THEN jsonDoc ELSE Parse(input)
    /\ mainPc' = "open_output"
    /\ UNCHANGED <<input, inputStream, outputStream, namespaces, stack, stream, cerr>>

\* Lines 221-225: picojson::parse; its error message is empty exactly when
\* the file is a JSON document.
ParseJson ==
    /\ mainPc = "parse"
    /\ cout' = Append(cout, "Parsing JSON...")
    /\ IF input = Malformed
       THEN /\ errorMessage' = "syntax error"
            /\ mainPc' = "report"
            /\ UNCHANGED jsonDoc
       ELSE /\ errorMessage' = ""
            /\ jsonDoc' = Parse(input)
            /\ mainPc' = "open_output"
    /\ UNCHANGED <<input, inputStream, outputStream, namespaces, stack, stream, cerr>>

\* Lines 227-233 and 236-239: open the output stream and, when it opened,
\* build rootNamespace and call ConvertAndExport.
OpenOutput ==
    /\ mainPc = "open_output"
    /\ \E opened \in BOOLEAN :
         IF opened
         THEN /\ outputStream' = "good"
              /\ cout' = Append(cout, "Converting...")
              /\ namespaces' = <<PropertyNamespace("", -1)>>
              /\ stack' = <<Call(jsonDoc, input, 1)>>
              /\ mainPc' = "converting"
              /\ UNCHANGED errorMessage
         ELSE /\ outputStream' = "failed"
              /\ errorMessage' = "Failed to create output stream"
              /\ mainPc' = "report"
              /\ UNCHANGED <<namespaces, stack, cout>>
    /\ UNCHANGED <<input, inputStream, jsonDoc, stream, cerr>>

\* Line 234: ConvertAndExport has returned to main.
ConvertDone ==
    /\ mainPc = "converting"
    /\ stack = <<>>
    /\ cout' = Append(cout, "Done")
    /\ mainPc' = "report"
    /\ UNCHANGED <<input, inputStream, outputStream, errorMessage, jsonDoc, namespaces, stack, stream, cerr>>

\* Lines 247-250: report the error, if any, and leave main.
Report ==
    /\ mainPc = "report"
    /\ cerr' = IF errorMessage # "" THEN Append(cerr, errorMessage) ELSE cerr
    /\ mainPc' = "exit"
    /\ UNCHANGED <<input, inputStream, outputStream, errorMessage, jsonDoc, namespaces, stack, stream, cout>>

(***************************************************************************)
(* ConvertAndExport                                                        *)
(***************************************************************************)
\* Lines 128-135: an array element that is a namespace.  keyName is still
\* empty after get, so newNamespace has the empty name.
ArrayNamespaceBegin ==
    /\ Converting
    /\ Top.pc = "array"
    /\ Top.i <= Len(Top.node.items)
    /\ IsNamespaceType(arrayValue)
    /\ \E outcome \in GetOutcomes(arrayValue) :
         IF outcome = "fails"
         THEN /\ mainPc' = "terminated"
              /\ UNCHANGED <<namespaces, stack, stream>>
         ELSE LET keyName == ""
                  new == PropertyNamespace(keyName, currentNamespace.depth + 1)
              IN  /\ stream' = stream \o BeginNamespaceScope(new, currentNamespace)
                  /\ namespaces' = Append(namespaces, new)
                  /\ stack' = Append(SetTop([Top EXCEPT !.pc = "after_namespace"]),
                                     Call(arrayValue, Top.src.items[Top.i], Top.cur + 1))
                  /\ UNCHANGED mainPc
    /\ UNCHANGED <<input, inputStream, outputStream, errorMessage, jsonDoc, cout, cerr>>

\* Lines 136-138: the call on the element has returned.
ArrayNamespaceEnd ==
    /\ Converting
    /\ Top.node.type = "array"
    /\ Top.pc = "after_namespace"
    /\ namespaces' = [SubSeq(namespaces, 1, Top.cur) EXCEPT
                        ![Top.cur] = AddNamespace(currentNamespace, newNamespace)]
    /\ stream' = stream \o EndNamespaceScope(newNamespace)
    /\ stack' = SetTop([Top EXCEPT !.pc = "array", !.i = @ + 1])
    /\ UNCHANGED <<input, inputStream, outputStream, mainPc, errorMessage, jsonDoc, cout, cerr>>

\* Lines 139-144: an array element that is a scalar.
ArrayValueBegin ==
    /\ Converting
    /\ Top.pc = "array"
    /\ Top.i <= Len(Top.node.items)
    /\ ~IsNamespaceType(arrayValue)
    /\ namespaces' = [namespaces EXCEPT
                        ![Top.cur] = AddValue(currentNamespace, ToString(Top.valueIndex), "")]
    /\ stack' = Append(SetTop([Top EXCEPT !.pc = "after_value"]),
                       Call(arrayValue, Top.src.items[Top.i], Top.cur))
    /\ UNCHANGED <<input, inputStream, outputStream, mainPc, errorMessage, jsonDoc, stream, cout, cerr>>

\* Lines 145-146: the call on the scalar has returned.
ArrayValueEnd ==
    /\ Converting
    /\ Top.node.type = "array"
    /\ Top.pc = "after_value"
    /\ stack' = SetTop([Top EXCEPT !.pc = "array", !.i = @ + 1, !.valueIndex = @ + 1])
    /\ UNCHANGED <<input, inputStream, outputStream, mainPc, errorMessage, jsonDoc, namespaces, stream, cout, cerr>>

\* Lines 156-165 and 176: an object member that is a namespace.
ObjectNamespaceBegin ==
    /\ Converting
    /\ Top.pc = "object"
    /\ Top.i <= Len(Top.node.items)
    /\ IsNamespaceType(valuePair.second)
    /\ LET new == PropertyNamespace(valuePair.first, currentNamespace.depth + 1)
       IN  /\ stream' = stream \o BeginNamespaceScope(new, currentNamespace)
           /\ namespaces' = Append(namespaces, new)
    /\ stack' = Append(SetTop([Top EXCEPT !.pc = "after_namespace"]),
                       Call(valuePair.second, SrcMember(Top.src, valuePair.first),
                            Top.cur + 1))
    /\ UNCHANGED <<input, inputStream, outputStream, mainPc, errorMessage, jsonDoc, cout, cerr>>

\* Lines 156-158 and 166-176: an object member that is a scalar.
ObjectValueBegin ==
    /\ Converting
    /\ Top.pc = "object"
    /\ Top.i <= Len(Top.node.items)
    /\ ~IsNamespaceType(valuePair.second)
    /\ stream' = IF GetPreviousModification(currentNamespace) = "NamespaceAdded"
                 THEN Append(stream, BlankLine) ELSE stream
    /\ namespaces' = [namespaces EXCEPT
                        ![Top.cur] = AddValue(currentNamespace, valuePair.first, "")]
    /\ stack' = Append(SetTop([Top EXCEPT !.pc = "after_value"]),
                       Call(valuePair.second, SrcMember(Top.src, valuePair.first),
                            Top.cur))
    /\ UNCHANGED <<input, inputStream, outputStream, mainPc, errorMessage, jsonDoc, cout, cerr>>

\* Lines 178-183: the call on the member has returned; nextNamespace is
\* &newNamespace exactly when the member was a namespace.
ObjectMemberEnd ==
    /\ Converting
    /\ Top.node.type = "object"
    /\ Top.pc \in {"after_namespace", "after_value"}
    /\ IF Top.pc = "after_namespace"
       THEN /\ namespaces' = [SubSeq(namespaces, 1, Top.cur) EXCEPT
                                ![Top.cur] = AddNamespace(currentNamespace, newNamespace)]
            /\ stream' = stream \o EndNamespaceScope(newNamespace)
       ELSE UNCHANGED <<namespaces, stream>>
    /\ stack' = SetTop([Top EXCEPT !.pc = "object", !.i = @ + 1])
    /\ UNCHANGED <<input, inputStream, outputStream, mainPc, errorMessage, jsonDoc, cout, cerr>>

\* Lines 185-200: a scalar.  The last pair of currentNamespace is filled in
\* and written; with no pair in the vector, back() has no object to refer to.
ScalarBranch ==
    /\ Converting
    /\ Top.pc = "scalar"
    /\ LET spacing == IF GetPreviousModification(currentNamespace) = "NamespaceAdded"
                      THEN <<BlankLine>> ELSE <<>>
           indent == GetIndentation(currentNamespace.depth + 1)
           last == Len(currentNamespace.values)
       IN  IF last > 0
           THEN /\ namespaces' = [namespaces EXCEPT
                                    ![Top.cur].values[last][2] = to_str(Top.node)]
                /\ stream' = stream \o spacing \o
                             <<ValueLine(indent, currentNamespace.values[last][1],
                                         to_str(Top.node))>>
                /\ stack' = Pop
                /\ UNCHANGED mainPc
           ELSE \/ /\ mainPc' = "terminated"
                   /\ UNCHANGED <<namespaces, stack, stream>>
                \/ \E key \in IndeterminateKeys :
                     /\ stream' = stream \o spacing \o
                                  <<ValueLine(indent, key, to_str(Top.node))>>
                     /\ stack' = Pop
                     /\ UNCHANGED <<mainPc, namespaces>>
    /\ UNCHANGED <<input, inputStream, outputStream, errorMessage, jsonDoc, cout, cerr>>

\* Lines 126 and 154: the range-for is over and the call returns.
LoopEnd ==
    /\ Converting
    /\ Top.pc \in {"array", "object"}
    /\ Top.i > Len(Top.node.items)
    /\ stack' = Pop
    /\ UNCHANGED <<input, inputStream, outputStream, mainPc, errorMessage, jsonDoc, namespaces, stream, cout, cerr>>

Next ==
    \/ OpenInput
    \/ ParseJson
    \/ OpenOutput
    \/ ConvertDone
    \/ Report
    \/ ArrayNamespaceBegin
    \/ ArrayNamespaceEnd
    \/ ArrayValueBegin
    \/ ArrayValueEnd
    \/ ObjectNamespaceBegin
    \/ ObjectValueBegin
    \/ ObjectMemberEnd
    \/ ScalarBranch
    \/ LoopEnd

Spec == Init /\ [][Next]_vars

(***************************************************************************)
(* Reading the state and the output.                                       *)
(***************************************************************************)
\* ConvertAndExport has been called.
Invoked == namespaces # <<>>
\* ConvertAndExport has returned to main.
Returned == mainPc \in {"report", "exit"} /\ Invoked
\* The run is over, by leaving main or by being terminated.
Ended == mainPc \in {"exit", "terminated"}

Positions == 1..Len(stream)
IsBlank(p) == stream[p].kind = "blank"

\* The innermost activation has just been entered for a namespace that an
\* array activation opened: the last two lines are the block's name and brace.
JustOpenedByArray ==
    /\ Converting
    /\ Len(stack) >= 2
    /\ Top.pc \in {"array", "object"}
    /\ Top.i = 1
    /\ stack[Len(stack) - 1].node.type = "array"
    /\ stack[Len(stack) - 1].pc = "after_namespace"
OpenedName == stream[Len(stream) - 1].name

\* The array activation on top has just got back the call it made for the
\* scalar element at Top.i: the last line is that element's line.
ScalarElementEmitted ==
    /\ Converting
    /\ Top.node.type = "array"
    /\ Top.pc = "after_value"

\* The line before line p that is not blank is a closing brace: the emission
\* before line p in its block was a child block.
FollowsBlock(p) ==
    \E q \in 1..(p - 1) :
        /\ stream[q].kind = "close"
        /\ \A r \in (q + 1)..(p - 1) : IsBlank(r)

(***************************************************************************)
(* C2.  In every block a key = value line is immediately preceded by a     *)
(* blank line if and only if the emission immediately before it in the     *)
(* same block was a child block's closing brace; this for object and for   *)
(* array parents, so that the 1 of [{}, 1] comes after a blank line.       *)
(***************************************************************************)
C2_SpacingRule ==
    \A p \in Positions :
        stream[p].kind = "value" =>
            ((p > 1 /\ IsBlank(p - 1)) <=> FollowsBlock(p))

(***************************************************************************)
(* C6.  ConvertAndExport is invoked only after the input file opened, the  *)
(* parse returned an empty error message and the output stream opened; and *)
(* a run in which one of the three fails never invokes the converter and   *)
(* writes exactly one message to standard error.                           *)
(***************************************************************************)
ParseFailed == inputStream = "good" /\ input = Malformed /\ mainPc # "parse"
StepFailed == inputStream = "failed" \/ ParseFailed \/ outputStream = "failed"

C6_ConverterGuarded ==
    /\ Invoked =>
          /\ inputStream = "good"
          /\ input # Malformed
          /\ errorMessage = ""
          /\ jsonDoc = Parse(input)
          /\ outputStream = "good"
    /\ StepFailed => ~Invoked /\ stack = <<>> /\ stream = <<>>
    /\ (StepFailed /\ mainPc = "exit") => Len(cerr) = 1
    /\ (StepFailed /\ mainPc # "exit") => cerr = <<>>

C6_Witness ==
    /\ mainPc = "exit"
    /\ ParseFailed
    /\ cerr = <<"syntax error">>

(***************************************************************************)
(* C7.  Every execution of the scalar branch finds the current block's     *)
(* list of pending value entries non-empty, its last entry being the still *)
(* unresolved one, and the converter never fails, whatever the document,   *)
(* a document that is a single scalar included.                            *)
(***************************************************************************)
C7_PendingEntryPresent ==
    /\ (Converting /\ Top.pc = "scalar") =>
          /\ currentNamespace.values # <<>>
          /\ currentNamespace.values[Len(currentNamespace.values)][2] = ""
    /\ mainPc # "terminated"

(***************************************************************************)
(* C8.  A scalar element at position i of an array, counting all the       *)
(* elements of the array from zero, is written as a key = value line whose *)
(* key is the decimal string of i, also in an array that mixes scalars     *)
(* with objects and arrays.                                                *)
(***************************************************************************)
C8_KeyIsPosition ==
    ScalarElementEmitted =>
        /\ stream[Len(stream)].kind = "value"
        /\ stream[Len(stream)].name = ToString(Top.i - 1)

(***************************************************************************)
(* C9.  The block opened for a namespace-type array element is named by    *)
(* the element's first key when the element is an object that has one, and *)
(* by the synthesized name only otherwise.                                 *)
(***************************************************************************)
C9_NamedByEmbeddedKey ==
    JustOpenedByArray =>
        IF Top.node.type = "object" /\ Top.node.items # <<>>
        THEN OpenedName = Top.node.items[1].first
        ELSE OpenedName =
                 namespaces[Top.cur - 1].name \o "_" \o
                 ToString(GetNamespaceCount(namespaces[Top.cur - 1]))

(***************************************************************************)
(* C10.  The output never holds two consecutive blank lines, never begins  *)
(* with a blank line and never ends with one; an object member that is a   *)
(* scalar and follows a sibling block is separated from it by exactly one  *)
(* blank line.                                                             *)
(***************************************************************************)
\* The object activation on top has just got back the call it made for a
\* scalar member that comes right after a member that is a namespace.
ScalarMemberAfterBlock ==
    /\ Converting
    /\ Top.node.type = "object"
    /\ Top.pc = "after_value"
    /\ Top.i > 1
    /\ IsNamespaceType(Top.node.items[Top.i - 1].second)

Opens(p) == Cardinality({q \in 1..p : stream[q].kind = "open"})
Closes(p) == Cardinality({q \in 1..p : stream[q].kind = "close"})
\* The number of blocks open after line p.
Level(p) == Opens(p) - Closes(p)
\* The number of blocks around line p, its own block not counted.
BlockLevel(p) == IF stream[p].kind = "open" THEN Level(p) - 1 ELSE Level(p)
\* The } line matching the { line p, or 0.
Match(p) ==
    LET after == {q \in Positions : q > p /\ stream[q].kind = "close" /\ Level(q) = Level(p) - 1}
    IN  IF after = {} THEN 0 ELSE CHOOSE q \in after : \A r \in after : q <= r

ParentNameLine(p) ==
    LET before == {q \in 1..(p - 1) : /\ stream[q].kind = "name"
                                      /\ stream[q].indent = stream[p].indent - 4}
    IN  IF before = {} THEN 0 ELSE CHOOSE q \in before : \A r \in before : r <= q
\* The name the block around the name line p was emitted under.
ParentEmittedName(p) ==
    IF ParentNameLine(p) = 0 THEN "" ELSE stream[ParentNameLine(p)].name
\* The number of blocks closed in the block around the name line p, before p.
SiblingsBefore(p) ==
    Cardinality({q \in (ParentNameLine(p) + 1)..(p - 1) :
                    /\ stream[q].kind = "close"
                    /\ stream[q].indent = stream[p].indent})
\* The element has no key of its own to be named by.
Anonymous(node) == node.type = "array" \/ node.items = <<>>

C3_NamedAfterEmittedParent ==
    (JustOpenedByArray /\ Anonymous(Top.node)) =>
        OpenedName = ParentEmittedName(Len(stream) - 1) \o "_" \o
                     ToString(SiblingsBefore(Len(stream) - 1))

(***************************************************************************)
(* C4.  Every scalar leaf that is the value of key k, or the array element *)
(* keyed k, directly inside a block of depth d (the root's depth being -1) *)
(* has exactly one line in the output, made of 4 * (d + 1) spaces, k,      *)
(* " = " and the scalar's rendered text; and the output has no other       *)
(* key = value line.  (An array element's k is the key the array branch    *)
(* registers it under.)                                                    *)
(***************************************************************************)
\* The key of item j of a namespace-type node.
LeafKey(node, j) ==
    IF node.type = "object" THEN node.items[j].first
    ELSE ToString(Cardinality({k \in 1..(j - 1) : ~IsNamespaceType(node.items[k])}))
ItemValue(node, j) ==
    IF node.type = "object" THEN node.items[j].second ELSE node.items[j]

\* The lines of the scalar leaves of items j, j + 1, ... of node, whose
\* block has depth d, and of the blocks inside them, in document order.
RECURSIVE LeafLines(_, _, _)
LeafLines(node, d, j) ==
    IF ~IsNamespaceType(node) \/ j > Len(node.items) THEN <<>>
    ELSE (IF IsNamespaceType(ItemValue(node, j))
          THEN LeafLines(ItemValue(node, j), d + 1, 1)
          ELSE <<[kind |-> "value", indent |-> 4 * (d + 1),
                  name |-> LeafKey(node, j), value |-> to_str(ItemValue(node, j))]>>)
         \o LeafLines(node, d, j + 1)

IsValueLine(l) == l.kind = "value"

C4_OneLinePerLeaf ==
    Returned => SelectSeq(stream, IsValueLine) = LeafLines(jsonDoc, -1, 1)

(***************************************************************************)
(* C1.  The members of every JSON object, at the root or nested, are       *)
(* emitted in the order in which their keys appear in the source JSON,     *)
(* whatever that order is.                                                 *)
(***************************************************************************)
\* The number of members the loop of activation f has started on.
Begun(f) == IF f.pc = "object" THEN f.i - 1 ELSE f.i
ObjectActivations == {k \in 1..Len(stack) : stack[k].node.type = "object"}

\* The names of the lines the root block holds directly, in output order.
IsTopEntry(l) == l.kind \in {"name", "value"} /\ l.indent = 0
TopEntries ==
    LET ls == SelectSeq(stream, IsTopEntry) IN [j \in 1..Len(ls) |-> ls[j].name]
\* The names the members ms, taken in this order, are emitted under in the
\* root block: a member's key, or _<n> for a namespace of empty key.
EntryNames(ms) ==
    [j \in 1..Len(ms) |->
        IF ms[j].first = "" /\ IsNamespaceType(ms[j].second)
        THEN "_" \o ToString(Cardinality({k \in 1..(j - 1) : IsNamespaceType(ms[k].second)}))
        ELSE ms[j].first]

C1_SourceOrder ==
    /\ \A k \in ObjectActivations :
          \A j \in 1..Begun(stack[k]) :
              stack[k].node.items[j].first = stack[k].src.items[j].first
    /\ (Returned /\ input.type = "object") => TopEntries = EntryNames(input.items)

(***************************************************************************)
(* C1, amended.  The members of every JSON object, at the root or nested,  *)
(* are emitted in ascending order of their keys (the order of              *)
(* std::less<std::string>), whatever the order of the keys in the source   *)
(* JSON; each member of the source is emitted once.                        *)
(***************************************************************************)
\* The members ms in ascending order of their keys.
Ascending(ms) ==
    CHOOSE s \in [1..Len(ms) -> {ms[j] : j \in 1..Len(ms)}] :
        /\ \A j \in 1..(Len(ms) - 1) : KeyLess(s[j].first, s[j + 1].first)
        /\ \A j \in 1..Len(ms) : \E k \in 1..Len(ms) : s[k] = ms[j]

C1_KeyOrder ==
    /\ \A k \in ObjectActivations :
          LET f == stack[k] IN
          /\ Len(f.node.items) = Len(f.src.items)
          /\ \A j \in 1..Begun(f) : f.node.items[j].first = Ascending(f.src.items)[j].first
    /\ (Returned /\ input.type = "object") =>
          TopEntries = EntryNames(Ascending(input.items))

\* A finished run on an object whose two keys are not in ascending order in
\* the source, both members emitted.
C1_Witness ==
    /\ Returned
    /\ input.type = "object"
    /\ Len(input.items) = 2
    /\ KeyLess(input.items[2].first, input.items[1].first)
    /\ Len(TopEntries) = 2

====
